---- MODULE Spec2Model ----
(***************************************************************************)
(* deltafs-plfsdir-runner: an MPI benchmark driver that writes keyed       *)
(* records into a plfsdir, one epoch at a time, with a barrier before each *)
(* epoch flush and a SIGALRM watchdog around the whole run.                *)
(*                                                                         *)
(* One process per rank.  Every call a rank makes into MPI or into the     *)
(* storage engine is recorded, with its result, in that rank's log.        *)
(***************************************************************************)
EXTENDS Integers, Sequences, FiniteSets, TLC

\* ------------------------------------------------------------------ bounds
NRanks == 2
MaxEpochs == 2
MaxKeys == 2

\* ------------------------------------------------------- program constants
DEF_TIMEOUT == 300
DEF_BBOS_PORT == 12345
DEF_NUM_EPOCHS == 8
DEF_NUM_KEYS_PER_EPOCH == 1024
DEF_IO_SIZE == 2097152
DEF_FILTER_BITS == 10
DEF_KEY_SIZE == 8
DEF_VAL_SIZE == 32

Ranks == 0 .. (NRanks - 1)

VARIABLES
  argv,     \* the command line every rank is started with
  pc,       \* pc[r]: where rank r is in main/write/writepoch
  g,        \* g[r]: struct gs of rank r
  dir,      \* dir[r]: the plfsdir handle pointer: "NULL", "valid", "dangling"
  env,      \* env[r]: TRUE when the bbos env pointer is non-NULL
  bgp,      \* bgp[r]: TRUE when the thread pool pointer is non-NULL
  cf,       \* cf[r]: the conf buffer: the fields stored whole, the bytes
            \* stored, and whether a write went past its end
  sess,     \* sess[r]: state of the storage engine's session behind dir
  e,        \* e[r]: loop variable of write()
  i,        \* i[r]: loop variable of writepoch()
  bar,      \* bar[r]: number of MPI_Barrier calls rank r has entered
  log,      \* log[r]: the external calls rank r has made, in order
  status,   \* status[r]: exit status, -1 while the process runs
  pending,  \* pending[r]: an alarm(2) timer is pending
  expired   \* expired[r]: g.timeout seconds have passed since alarm()

vars == <<argv, pc, g, dir, env, bgp, cf, sess, e, i, bar, log, status,
          pending, expired>>

\* ------------------------------------------------------------ command line
\* An option is <<>> when absent and <<value>> when given (atoi already done).
CmdLine(ne, nk, t, x) ==
  [s |-> <<>>, e |-> <<ne>>, n |-> <<nk>>, f |-> <<>>, k |-> <<>>,
   d |-> IF x THEN <<0>> ELSE <<>>, j |-> IF x THEN <<1>> ELSE <<>>,
   t |-> t, r |-> x, b |-> x, v |-> x, unk |-> FALSE,
   pos |-> IF x THEN 3 ELSE 1, port |-> 7]

\* <<epochs, keys per epoch>> of the runs: none of either, one of each, most
Shapes ==
  { <<0, MaxKeys>>, <<MaxEpochs, 0>>, <<1, 1>>, <<MaxEpochs, MaxKeys>> }

\* the largest value atoi() can return into an int
INT_MAX == 2147483647

\* a run without epochs whose -s, -f, -k and -d are as wide as an int gets
WideCmdLine ==
  [CmdLine(0, MaxKeys, <<0>>, TRUE) EXCEPT
     !.s = <<INT_MAX>>, !.f = <<INT_MAX>>, !.k = <<INT_MAX>>,
     !.d = <<INT_MAX>>]

\* a run without epochs that names a bbos host and port but gives no -b
NoBbosCmdLine == [CmdLine(0, MaxKeys, <<0>>, TRUE) EXCEPT !.b = FALSE]

\* a run of one epoch more than the others, without keys
LongCmdLine == CmdLine(MaxEpochs + 1, 0, <<0>>, TRUE)

\* local runs with the default timeout and value size, and runs against
\* bbos with a thread pool, empty values and -t 0
GoodCmdLines ==
  { CmdLine(sh[1], sh[2], <<>>, FALSE) :
      sh \in { <<1, 1>>, <<MaxEpochs, 0>> } }
    \cup { CmdLine(sh[1], sh[2], <<0>>, TRUE) : sh \in Shapes }
    \cup { WideCmdLine, NoBbosCmdLine, LongCmdLine }

BadCmdLines ==
  LET base == CmdLine(1, 1, <<>>, TRUE) IN
  { [base EXCEPT !.s = <<0>>], [base EXCEPT !.e = <<-1>>],
    [base EXCEPT !.n = <<-1>>], [base EXCEPT !.f = <<-1>>],
    [base EXCEPT !.k = <<0>>], [base EXCEPT !.d = <<-1>>],
    [base EXCEPT !.j = <<-1>>], [base EXCEPT !.t = <<-1>>],
    [base EXCEPT !.unk = TRUE], [base EXCEPT !.pos = 0],
    [base EXCEPT !.port = 0] }

CmdLines == GoodCmdLines \cup BadCmdLines

OptVal(o, def) == IF o = <<>> THEN def ELSE o[1]

\* usage() is reached: a bad option value, an unknown option, no plfsdir
\* argument, or a bbos port <= 0.
BadArgsLax(a) ==
  \/ a.unk
  \/ OptVal(a.s, DEF_IO_SIZE) <= 0
  \/ OptVal(a.e, DEF_NUM_EPOCHS) < 0
  \/ OptVal(a.n, DEF_NUM_KEYS_PER_EPOCH) < 0
  \/ OptVal(a.f, DEF_FILTER_BITS) < 0
  \/ OptVal(a.k, DEF_KEY_SIZE) < 0
  \/ OptVal(a.d, DEF_VAL_SIZE) < 0
  \/ OptVal(a.j, 0) < 0
  \/ OptVal(a.t, DEF_TIMEOUT) < 0
  \/ a.pos = 0
  \/ (IF a.pos > 2 THEN a.port ELSE DEF_BBOS_PORT) <= 0

BadArgs(a) ==
  \/ a.unk
  \/ OptVal(a.s, DEF_IO_SIZE) <= 0
  \/ OptVal(a.e, DEF_NUM_EPOCHS) < 0
  \/ OptVal(a.n, DEF_NUM_KEYS_PER_EPOCH) < 0
  \/ OptVal(a.f, DEF_FILTER_BITS) < 0
  \/ OptVal(a.k, DEF_KEY_SIZE) <= 0
  \/ OptVal(a.d, DEF_VAL_SIZE) < 0
  \/ OptVal(a.j, 0) < 0
  \/ OptVal(a.t, DEF_TIMEOUT) < 0
  \/ a.pos = 0
  \/ (IF a.pos > 2 THEN a.port ELSE DEF_BBOS_PORT) <= 0

\* struct gs after memset(&g, 0, sizeof(g))
ZeroGs ==
  [bg |-> 0, bbos |-> 0, bbosport |-> 0, myrank |-> 0, commsz |-> 0,
   nepochs |-> 0, nkeys |-> 0, filterbits |-> 0, keysz |-> 0, valsz |-> 0,
   iosz |-> 0, logrotation |-> 0, timeout |-> 0, v |-> 0]

\* struct gs after the defaults and the getopt loop
ParsedGs(old, a) ==
  [old EXCEPT
     !.nepochs = OptVal(a.e, DEF_NUM_EPOCHS),
     !.nkeys = OptVal(a.n, DEF_NUM_KEYS_PER_EPOCH),
     !.filterbits = OptVal(a.f, DEF_FILTER_BITS),
     !.keysz = OptVal(a.k, DEF_KEY_SIZE),
     !.valsz = OptVal(a.d, DEF_VAL_SIZE),
     !.bbosport = IF a.pos > 2 THEN a.port ELSE DEF_BBOS_PORT,
     !.timeout = OptVal(a.t, DEF_TIMEOUT),
     !.iosz = OptVal(a.s, DEF_IO_SIZE),
     !.bg = OptVal(a.j, 0),
     !.logrotation = IF a.r THEN 1 ELSE 0,
     !.bbos = IF a.b THEN 1 ELSE 0,
     !.v = IF a.v THEN 1 ELSE 0]

\* ------------------------------------------------------------------ events
Ev(op, ee, k, n, ok) == [op |-> op, e |-> ee, k |-> k, n |-> n, ok |-> ok]
Call(op, ok) == Ev(op, -1, <<>>, -1, ok)

\* static char cf[500]: zero-filled, an empty string
EmptyCf == [fields |-> <<>>, len |-> 0, over |-> FALSE]

Init ==
  /\ argv \in CmdLines
  /\ pc = [r \in Ranks |-> "mpi_init"]
  /\ g = [r \in Ranks |-> ZeroGs]
  /\ dir = [r \in Ranks |-> "NULL"]
  /\ env = [r \in Ranks |-> FALSE]
  /\ bgp = [r \in Ranks |-> FALSE]
  /\ cf = [r \in Ranks |-> EmptyCf]
  /\ sess = [r \in Ranks |-> "none"]
  /\ e = [r \in Ranks |-> 0]
  /\ i = [r \in Ranks |-> 0]
  /\ bar = [r \in Ranks |-> 0]
  /\ log = [r \in Ranks |-> <<>>]
  /\ status = [r \in Ranks |-> -1]
  /\ pending = [r \in Ranks |-> FALSE]
  /\ expired = [r \in Ranks |-> FALSE]

\* ----------------------------------------------------------------- helpers
Goto(r, l) == pc' = [pc EXCEPT ![r] = l]
Logged(r, evs) == log' = [log EXCEPT ![r] = @ \o evs]

\* exit(code): the process is gone, and so is its pending alarm
Exit(r, code) ==
  /\ pc' = [pc EXCEPT ![r] = "exited"]
  /\ status' = [status EXCEPT ![r] = code]
  /\ pending' = [pending EXCEPT ![r] = FALSE]

\* complain(): print and exit(1)
complain(r) == Exit(r, 1)

\* usage(): print and exit(1)
usage(r) == Exit(r, 1)

\* sigalarm(): print and exit(1)
sigalarm(r) == Exit(r, 1)

Running(r) == UNCHANGED <<status, pending>>

\* MPI matches the k-th barrier call of every rank: the call of rank r can
\* return success once every rank has entered its bar[r]-th barrier.
BarrierDone(r) == \A q \in Ranks : bar[q] >= bar[r]

\* ------------------------------------------------------------------- main
\* r = MPI_Init(...); if (r != MPI_SUCCESS) complain(...)
MpiInit(r, ok) ==
  /\ pc[r] = "mpi_init"
  /\ Logged(r, <<Call("MPI_Init", ok)>>)
  /\ IF ok THEN Goto(r, "comm_rank") /\ Running(r) ELSE complain(r)
  /\ UNCHANGED <<argv, g, dir, env, bgp, cf, sess, e, i, bar, expired>>

\* memset(&g, 0, sizeof(g)); r = MPI_Comm_rank(MPI_COMM_WORLD, &g.myrank)
CommRank(r, ok) ==
  /\ pc[r] = "comm_rank"
  /\ Logged(r, <<Call("MPI_Comm_rank", ok)>>)
  /\ IF ok
       THEN /\ g' = [g EXCEPT ![r] = [ZeroGs EXCEPT !.myrank = r]]
            /\ Goto(r, "comm_size") /\ Running(r)
       ELSE /\ g' = [g EXCEPT ![r] = ZeroGs]
            /\ complain(r)
  /\ UNCHANGED <<argv, dir, env, bgp, cf, sess, e, i, bar, expired>>

\* r = MPI_Comm_size(MPI_COMM_WORLD, &g.commsz)
CommSize(r, ok) ==
  /\ pc[r] = "comm_size"
  /\ Logged(r, <<Call("MPI_Comm_size", ok)>>)
  /\ IF ok
       THEN /\ g' = [g EXCEPT ![r].commsz = NRanks]
            /\ Goto(r, "getopt") /\ Running(r)
       ELSE /\ UNCHANGED g
            /\ complain(r)
  /\ UNCHANGED <<argv, dir, env, bgp, cf, sess, e, i, bar, expired>>

\* the defaults, the getopt loop, the positional arguments, printopts()
ParseArgs(r) ==
  /\ pc[r] = "getopt"
  /\ IF BadArgs(argv)
       THEN usage(r) /\ UNCHANGED g
       ELSE /\ g' = [g EXCEPT ![r] = ParsedGs(@, argv)]
            /\ Goto(r, "alarm") /\ Running(r)
  /\ UNCHANGED <<argv, dir, env, bgp, cf, sess, e, i, bar, log, expired>>

\* signal(SIGALRM, sigalarm); alarm(g.timeout); dir = env = bgp = NULL.
\* alarm(0) arms nothing: zero seconds have passed at once, no signal comes.
SetAlarm(r) ==
  /\ pc[r] = "alarm"
  /\ pending' = [pending EXCEPT ![r] = (g[r].timeout > 0)]
  /\ expired' = [expired EXCEPT ![r] = (g[r].timeout = 0)]
  /\ dir' = [dir EXCEPT ![r] = "NULL"]
  /\ env' = [env EXCEPT ![r] = FALSE]
  /\ bgp' = [bgp EXCEPT ![r] = FALSE]
  /\ Goto(r, "barrier0")
  /\ UNCHANGED <<argv, g, cf, sess, e, i, bar, log, status>>

\* g.timeout seconds after alarm(): the kernel delivers SIGALRM, sigalarm()
Deadline(r) ==
  /\ pending[r]
  /\ pc[r] # "exited"
  /\ expired' = [expired EXCEPT ![r] = TRUE]
  /\ sigalarm(r)
  /\ UNCHANGED <<argv, g, dir, env, bgp, cf, sess, e, i, bar, log>>

\* MPI_Barrier(MPI_COMM_WORLD) in main: the call
Barrier0Enter(r) ==
  /\ pc[r] = "barrier0"
  /\ bar' = [bar EXCEPT ![r] = @ + 1]
  /\ Goto(r, "barrier0_wait") /\ Running(r)
  /\ UNCHANGED <<argv, g, dir, env, bgp, cf, sess, e, i, log, expired>>

\* MPI_Barrier(MPI_COMM_WORLD) in main: the return, its value dropped
Barrier0Return(r, ok) ==
  /\ pc[r] = "barrier0_wait"
  /\ ok => BarrierDone(r)
  /\ Logged(r, <<Call("MPI_Barrier", ok)>>)
  /\ Goto(r, "mkbbos") /\ Running(r)
  /\ UNCHANGED <<argv, g, dir, env, bgp, cf, sess, e, i, bar, expired>>

\* ------------------------------------------------------------------ write
\* if (g.bbos) mkbbos();
\* no env is made: if (g.bbos) in write(), if (!g.bbos || env) return
SkipBbosNever(r) == env[r]
SkipBbos(r) == g[r].bbos = 0 \/ env[r]

mkbbos(r, ok) ==
  /\ pc[r] = "mkbbos"
  /\ IF SkipBbos(r)
       THEN /\ ok
            /\ UNCHANGED <<env, log>>
            /\ Goto(r, "mkconf") /\ Running(r)
       ELSE /\ Logged(r, <<Call("env_init", ok)>>)
            /\ env' = [env EXCEPT ![r] = ok]
            /\ IF ok THEN Goto(r, "mkconf") /\ Running(r) ELSE complain(r)
  /\ UNCHANGED <<argv, g, dir, bgp, cf, sess, e, i, bar, expired>>

\* the fields mkconf() prints into cf
ConfSwapped(gs) ==
  << <<"rank", gs.myrank>>, <<"tail_padding", 1>>, <<"block_padding", 1>>,
     <<"data_buffer", gs.iosz>>, <<"min_data_buffer", gs.iosz>>,
     <<"index_buffer", gs.iosz>>, <<"min_index_buffer", gs.iosz>>,
     <<"key_size", gs.valsz>>, <<"value_size", gs.keysz>>,
     <<"bf_bits_per_key", gs.filterbits>>,
     <<"epoch_log_rotation", gs.logrotation>>, <<"lg_parts", 0>> >>

Conf(gs) ==
  << <<"rank", gs.myrank>>, <<"tail_padding", 1>>, <<"block_padding", 1>>,
     <<"data_buffer", gs.iosz>>, <<"min_data_buffer", gs.iosz>>,
     <<"index_buffer", gs.iosz>>, <<"min_index_buffer", gs.iosz>>,
     <<"key_size", gs.keysz>>, <<"value_size", gs.valsz>>,
     <<"bf_bits_per_key", gs.filterbits>>,
     <<"epoch_log_rotation", gs.logrotation>>, <<"lg_parts", 0>> >>

\* sizeof(cf)
CfSize == 500

\* the number of characters %d prints
RECURSIVE Digits(_)
Digits(v) ==
  IF v < 0 THEN 1 + Digits(0 - v)
  ELSE IF v < 10 THEN 1 ELSE 1 + Digits(v \div 10)

\* what each of the eleven snprintf calls of mkconf() returns: the length
\* of its whole text
Returns(gs) ==
  <<Len("rank=") + Digits(gs.myrank),
    Len("&tail_padding=1&block_padding=1"),
    Len("&data_buffer=") + Digits(gs.iosz),
    Len("&min_data_buffer=") + Digits(gs.iosz),
    Len("&index_buffer=") + Digits(gs.iosz),
    Len("&min_index_buffer=") + Digits(gs.iosz),
    Len("&key_size=") + Digits(gs.keysz),
    Len("&value_size=") + Digits(gs.valsz),
    Len("&bf_bits_per_key=") + Digits(gs.filterbits),
    Len("&epoch_log_rotation=") + Digits(gs.logrotation),
    Len("&lg_parts=") + Digits(0)>>

\* n after the first k calls: n = snprintf(...); n += snprintf(...); ...
RECURSIVE Sum(_, _)
Sum(rs, k) == IF k = 0 THEN 0 ELSE Sum(rs, k - 1) + rs[k]

\* sizeof(cf) - n of call k; below 0 the size_t wraps around and the call
\* writes past the end of cf
RoomSmall(rs, k) == 100 - Sum(rs, k - 1)
Room(rs, k) == CfSize - Sum(rs, k - 1)

\* call k stores its whole text and a NUL
Whole(rs, k) == rs[k] < Room(rs, k)

\* where the NUL of call k lands: snprintf stores at most size - 1
\* characters of its text
End(rs, k) ==
  Sum(rs, k - 1) + (IF Whole(rs, k) THEN rs[k] ELSE Room(rs, k) - 1)

\* the snprintf call that prints field j of Conf
CallOf(j) == IF j = 1 THEN 1 ELSE IF j <= 3 THEN 2 ELSE j - 1

\* cf after the snprintf calls that return rs and print the fields c: the
\* fields of the calls stored whole, and a string that ends at the NUL of
\* the last call that stored anything, the furthest of them all
Snprintf(rs, c) ==
  LET ends == { End(rs, k) : k \in { j \in DOMAIN rs : Room(rs, j) > 0 } }
  IN [fields |-> SubSeq(c, 1, Cardinality({ j \in DOMAIN c :
                                             Whole(rs, CallOf(j)) })),
      len |-> CHOOSE n \in ends : \A m \in ends : m <= n,
      over |-> \E k \in DOMAIN rs : Room(rs, k) < 0]

\* cf after mkconf()
Render(gs) ==
  CHOOSE x \in { Snprintf(rs, c) : rs \in {Returns(gs)}, c \in {Conf(gs)} } :
    TRUE

\* if (g.bg && !bgp)
NeedPoolAlways(r) == ~bgp[r]
NeedPool(r) == g[r].bg # 0 /\ ~bgp[r]

mkconf(r, ok) ==
  /\ pc[r] = "mkconf"
  /\ IF NeedPool(r)
       THEN /\ Logged(r, <<Call("tp_init", ok)>>)
            /\ bgp' = [bgp EXCEPT ![r] = ok]
       ELSE /\ ok
            /\ UNCHANGED <<bgp, log>>
  /\ IF g[r].bg # 0 /\ ~bgp'[r]
       THEN complain(r) /\ UNCHANGED cf
       ELSE /\ cf' = [cf EXCEPT ![r] = Render(g[r])]
            /\ Goto(r, "create_handle") /\ Running(r)
  /\ UNCHANGED <<argv, g, dir, env, sess, e, i, bar, expired>>

\* dir = deltafs_plfsdir_create_handle(cf, O_WRONLY), never tested for NULL;
\* set_err_printer; set_thread_pool if bgp; set_env if env
CreateHandle(r, ok) ==
  /\ pc[r] = "create_handle"
  /\ dir' = [dir EXCEPT ![r] = IF ok THEN "valid" ELSE "NULL"]
  /\ sess' = [sess EXCEPT ![r] = IF ok THEN "Unopened" ELSE "none"]
  /\ Logged(r, <<Call("create_handle", ok), Call("set_err_printer", TRUE)>>
               \o (IF bgp[r] THEN <<Call("set_thread_pool", TRUE)>> ELSE <<>>)
               \o (IF env[r] THEN <<Call("set_env", TRUE)>> ELSE <<>>))
  /\ Goto(r, "open") /\ Running(r)
  /\ UNCHANGED <<argv, g, env, bgp, cf, e, i, bar, expired>>

\* if (r) complain("error opening dir")
OpenFailedIgnored(ok) == FALSE
OpenFailed(ok) == ~ok

\* for (e = ...; e < g.nepochs; ...) writepoch(e); then finish
LoopHead(r, ne) ==
  /\ e' = [e EXCEPT ![r] = ne]
  /\ i' = [i EXCEPT ![r] = 0]
  /\ IF ne < g[r].nepochs THEN Goto(r, "writepoch") ELSE Goto(r, "finish")

\* r = deltafs_plfsdir_open(dir, g.dirname); a NULL handle cannot be opened
Open(r, ok) ==
  /\ pc[r] = "open"
  /\ dir[r] = "NULL" => ~ok
  /\ Logged(r, <<Call("open", ok)>>)
  /\ sess' = [sess EXCEPT ![r] = IF ok THEN "Open" ELSE @]
  /\ IF OpenFailed(ok)
       THEN complain(r) /\ UNCHANGED <<e, i>>
       ELSE LoopHead(r, 0) /\ Running(r)
  /\ UNCHANGED <<argv, g, dir, env, bgp, cf, bar, expired>>

\* -------------------------------------------------------------- writepoch
\* for (int i = 0; i < g.nkeys; i++): the loop is over
KeysDoneOffByOne(r) == i[r] > g[r].nkeys
KeysDone(r) == i[r] >= g[r].nkeys

\* writekey(i, e, v): the epoch the record is tagged with
AppendEpochNext(r) == e[r] + 1
AppendEpoch(r) == e[r]

\* sizeof(fname)
FnameSize == 20

HexChars ==
  <<"0", "1", "2", "3", "4", "5", "6", "7", "8", "9", "a", "b", "c", "d",
    "e", "f">>

\* %x of v >= 0, one hex digit per element
RECURSIVE Hex(_)
Hex(v) ==
  IF v < 16 THEN <<HexChars[v + 1]>>
  ELSE Hex(v \div 16) \o <<HexChars[(v % 16) + 1]>>

\* a field width of w with the 0 flag: short texts get leading zeros, long
\* ones are left as they are
RECURSIVE Pad(_, _)
Pad(s, w) == IF Len(s) >= w THEN s ELSE Pad(<<"0">> \o s, w)

\* the text of "f%08x-r%08x" for (k, rank)
FnameText(k, rank) ==
  <<"f">> \o Pad(Hex(k), 8) \o <<"-", "r">> \o Pad(Hex(rank), 8)

\* fname after snprintf(fname, sizeof(fname), ...): at most sizeof - 1
\* characters of the text
FnameShort(k, rank) == SubSeq(FnameText(k, rank), 1, 15)
Fname(k, rank) ==
  LET t == FnameText(k, rank) IN
  IF Len(t) < FnameSize THEN t ELSE SubSeq(t, 1, FnameSize - 1)

\* writekey(): snprintf(fname, ...) from (k, g.myrank); append; complain
writekey(r, ok) ==
  /\ pc[r] = "writepoch"
  /\ ~KeysDone(r)
  /\ Logged(r, <<Ev("append", AppendEpoch(r), Fname(i[r], g[r].myrank),
                    g[r].valsz, ok)>>)
  /\ IF ok
       THEN i' = [i EXCEPT ![r] = @ + 1] /\ UNCHANGED pc /\ Running(r)
       ELSE complain(r) /\ UNCHANGED i
  /\ UNCHANGED <<argv, g, dir, env, bgp, cf, sess, e, bar, expired>>

\* after the key loop: r = MPI_Barrier(MPI_COMM_WORLD), the call
EndOfKeysNoBarrier(r) ==
  /\ UNCHANGED bar
  /\ Goto(r, "wp_flush")
EndOfKeysSkipEmpty(r) ==
  IF g[r].nkeys = 0
    THEN UNCHANGED bar /\ Goto(r, "wp_flush")
    ELSE bar' = [bar EXCEPT ![r] = @ + 1] /\ Goto(r, "wp_barrier_wait")
EndOfKeys(r) ==
  /\ bar' = [bar EXCEPT ![r] = @ + 1]
  /\ Goto(r, "wp_barrier_wait")

WpBarrierEnter(r) ==
  /\ pc[r] = "writepoch"
  /\ KeysDone(r)
  /\ EndOfKeys(r) /\ Running(r)
  /\ UNCHANGED <<argv, g, dir, env, bgp, cf, sess, e, i, log, expired>>

\* if (r != MPI_SUCCESS) complain("fail to do mpi barrier")
BarrierFailedIgnored(ok) == FALSE
BarrierFailed(ok) == ~ok

\* the barrier of writepoch returns
WpBarrierReturn(r, ok) ==
  /\ pc[r] = "wp_barrier_wait"
  /\ ok => BarrierDone(r)
  /\ Logged(r, <<Call("MPI_Barrier", ok)>>)
  /\ IF BarrierFailed(ok) THEN complain(r) ELSE Goto(r, "wp_flush") /\ Running(r)
  /\ UNCHANGED <<argv, g, dir, env, bgp, cf, sess, e, i, bar, expired>>

\* deltafs_plfsdir_epoch_flush(dir, e): the epoch flushed
FlushEpochZero(r) == 0
FlushEpoch(r) == e[r]

\* r = deltafs_plfsdir_epoch_flush(dir, e): the call
FlushCall(r) ==
  /\ pc[r] = "wp_flush"
  /\ Logged(r, <<Ev("epoch_flush", FlushEpoch(r), <<>>, -1, TRUE)>>)
  /\ Goto(r, "wp_flush_ret") /\ Running(r)
  /\ UNCHANGED <<argv, g, dir, env, bgp, cf, sess, e, i, bar, expired>>

\* the flush returns; if (r) complain; back to the loop of write(), e++
FlushReturn(r, ok) ==
  /\ pc[r] = "wp_flush_ret"
  /\ Logged(r, <<Ev("epoch_flush_ret", FlushEpoch(r), <<>>, -1, ok)>>)
  /\ IF ok
       THEN LoopHead(r, e[r] + 1) /\ Running(r)
       ELSE complain(r) /\ UNCHANGED <<e, i>>
  /\ UNCHANGED <<argv, g, dir, env, bgp, cf, sess, bar, expired>>

\* ----------------------------------------------------- the end of write()
\* if (r) complain("error finalizing dir")
FinishFailedIgnored(ok) == FALSE
FinishFailed(ok) == ~ok

\* the statement of write() after the test of finish
AfterFinishNoFree == "mpi_finalize"
AfterFinish == "free_handle"

\* r = deltafs_plfsdir_finish(dir); if (r) complain
Finish(r, ok) ==
  /\ pc[r] = "finish"
  /\ Logged(r, <<Call("finish", ok)>>)
  /\ sess' = [sess EXCEPT ![r] = IF ok THEN "Finished" ELSE @]
  /\ IF FinishFailed(ok) THEN complain(r)
                         ELSE Goto(r, AfterFinish) /\ Running(r)
  /\ UNCHANGED <<argv, g, dir, env, bgp, cf, e, i, bar, expired>>

\* deltafs_plfsdir_free_handle(dir); dir keeps the freed pointer
FreeHandle(r) ==
  /\ pc[r] = "free_handle"
  /\ Logged(r, <<Call("free_handle", TRUE)>>)
  /\ dir' = [dir EXCEPT ![r] = "dangling"]
  /\ Goto(r, "mpi_finalize") /\ Running(r)
  /\ UNCHANGED <<argv, g, env, bgp, cf, sess, e, i, bar, expired>>

\* MPI_Finalize(), its value dropped; exit(0)
Finalize(r, ok) ==
  /\ pc[r] = "mpi_finalize"
  /\ Logged(r, <<Call("MPI_Finalize", ok)>>)
  /\ Exit(r, 0)
  /\ UNCHANGED <<argv, g, dir, env, bgp, cf, sess, e, i, bar, expired>>

\* ---------------------------------------------------------- specification
\* one step of rank r with the given result of the external call it makes
Step(r, ok) ==
  \/ MpiInit(r, ok)
  \/ CommRank(r, ok)
  \/ CommSize(r, ok)
  \/ ok /\ ParseArgs(r)
  \/ ok /\ SetAlarm(r)
  \/ ok /\ Barrier0Enter(r)
  \/ Barrier0Return(r, ok)
  \/ mkbbos(r, ok)
  \/ mkconf(r, ok)
  \/ CreateHandle(r, ok)
  \/ Open(r, ok)
  \/ writekey(r, ok)
  \/ ok /\ WpBarrierEnter(r)
  \/ WpBarrierReturn(r, ok)
  \/ ok /\ FlushCall(r)
  \/ FlushReturn(r, ok)
  \/ Finish(r, ok)
  \/ ok /\ FreeHandle(r)
  \/ Finalize(r, ok)

Next ==
  \/ \E r \in Ranks : Step(r, TRUE)
  \/ \E r \in Ranks : Step(r, FALSE)
  \/ \E r \in Ranks : Deadline(r)

Spec == Init /\ [][Next]_vars

\* --------------------------------------------------------------- key names
\* loop indices and ranks at the edges of the eight hex digits
KeyIndexes == {0, 1, 15, 16, 255, 65536, INT_MAX - 1}
KeyRanks == {0, 1, 16, INT_MAX - 1}

\* every rank is in the key loop of epoch 0 of a run with INT_MAX keys per
\* epoch in a world of INT_MAX ranks, at some index and with some rank
KeyInit ==
  /\ argv = CmdLine(1, INT_MAX, <<0>>, FALSE)
  /\ pc = [r \in Ranks |-> "writepoch"]
  /\ \E m \in [Ranks -> KeyRanks] :
       /\ g = [r \in Ranks |->
                [ParsedGs(ZeroGs, argv) EXCEPT !.myrank = m[r],
                                               !.commsz = INT_MAX]]
       /\ cf = [r \in Ranks |-> Render(g[r])]
  /\ dir = [r \in Ranks |-> "valid"]
  /\ env = [r \in Ranks |-> FALSE]
  /\ bgp = [r \in Ranks |-> FALSE]
  /\ sess = [r \in Ranks |-> "Open"]
  /\ e = [r \in Ranks |-> 0]
  /\ i \in [Ranks -> KeyIndexes]
  /\ bar = [r \in Ranks |-> 1]
  /\ log = [r \in Ranks |-> <<>>]
  /\ status = [r \in Ranks |-> -1]
  /\ pending = [r \in Ranks |-> FALSE]
  /\ expired = [r \in Ranks |-> TRUE]

\* one pass of the key loop by each rank
KeyNext == \E r \in Ranks : log[r] = <<>> /\ writekey(r, TRUE)

KeySpec == KeyInit /\ [][KeyNext]_vars

\* Every process is scheduled, its calls return when they can, and time
\* passes; no failure is ever forced to happen.
FairSpec ==
  /\ Spec
  /\ \A r \in Ranks : WF_vars(Step(r, TRUE))
  /\ \A r \in Ranks : WF_vars(Deadline(r))

\* Runs in which no call fails and the alarm does not go off: every process
\* is scheduled and its calls return when they can.
CleanNext == \E r \in Ranks : Step(r, TRUE)

CleanSpec ==
  /\ Init /\ [][CleanNext]_vars
  /\ \A r \in Ranks : WF_vars(Step(r, TRUE))

\* ------------------------------------------------- reading a rank's log
Epochs == 0 .. (MaxEpochs + 1)
Waiting(r) == pc[r] \in {"barrier0_wait", "wp_barrier_wait"}
Has(r, op, x) == \E j \in DOMAIN log[r] : log[r][j].op = op /\ log[r][j].e = x
HasOk(r, op, x) ==
  \E j \in DOMAIN log[r] :
    log[r][j].op = op /\ log[r][j].e = x /\ log[r][j].ok
NAppends(r, x) ==
  Cardinality({ j \in DOMAIN log[r] :
                  log[r][j].op = "append" /\ log[r][j].e = x /\ log[r][j].ok })
\* rank q has made all its appends of epoch x and is at or past the barrier
\* that follows them (the barrier of main is its first)
AppendsDone(q, x) == NAppends(q, x) = g[q].nkeys /\ bar[q] >= x + 2
FinishDone(r) == HasOk(r, "finish", -1)

\* ==================================================================== C1
\* C1: no rank calls epochFlush(x) before every rank has completed all of
\* its nkeys appends of epoch x: the barrier of writepoch is between them.
C1_FlushAfterAllAppends ==
  \A p \in Ranks : \A j \in DOMAIN log[p] :
    log[p][j].op = "epoch_flush" =>
      \A q \in Ranks : AppendsDone(q, log[p][j].e)

C1_Witness ==
  \E p \in Ranks : \E q \in Ranks :
    /\ p # q
    /\ g[q].nkeys = MaxKeys
    /\ Has(p, "epoch_flush", 1)
    /\ pc[q] = "wp_barrier_wait" /\ e[q] = 1

\* ==================================================================== C2
\* the epochs rank r has begun (an append or a flush call) and not ended
InProgress(r) ==
  { log[r][j].e : j \in { a \in DOMAIN log[r] :
                           /\ log[r][a].op \in {"append", "epoch_flush"}
                           /\ ~Has(r, "epoch_flush_ret", log[r][a].e) } }

\* C2: on one rank every append of an epoch comes before the flush call of
\* that epoch, every append of a later epoch comes after the flush of each
\* earlier epoch has returned, and at most one epoch is in progress.
C2_EpochsDoNotOverlap ==
  \A r \in Ranks :
    /\ \A b \in DOMAIN log[r] :
         log[r][b].op = "epoch_flush" =>
           \A a \in DOMAIN log[r] :
             (log[r][a].op = "append" /\ log[r][a].e = log[r][b].e) => a < b
    /\ \A a \in DOMAIN log[r] :
         log[r][a].op = "epoch_flush_ret" =>
           \A b \in DOMAIN log[r] :
             (log[r][b].op = "append" /\ log[r][b].e > log[r][a].e) => a < b
    /\ \A x \in Epochs :
         Has(r, "append", x) =>
           \A y \in 0 .. (x - 1) : HasOk(r, "epoch_flush_ret", y)
    /\ Cardinality(InProgress(r)) <= 1

C2_Witness ==
  \E r \in Ranks :
    /\ HasOk(r, "epoch_flush_ret", 0)
    /\ NAppends(r, 0) = MaxKeys
    /\ NAppends(r, 1) >= 1

\* ==================================================================== C3
\* C3 as stated: no rank issues an append of epoch x+1 while another rank,
\* still running, has not called or not returned from epochFlush(x).
C3_FlushedEverywhereBeforeNextEpoch ==
  \A p \in Ranks : \A q \in Ranks : \A x \in Epochs :
    (Has(p, "append", x + 1) /\ pc[q] # "exited")
      => HasOk(q, "epoch_flush_ret", x)

\* C3 as amended: no rank issues an append of epoch x+1 before every rank
\* has completed its appends of epoch x and entered the barrier of epoch x,
\* and before its own epochFlush(x) has returned.  The epochFlush(x) of
\* another rank may still be to come.
C3_NextEpochAfterBarrier ==
  \A p \in Ranks : \A x \in Epochs :
    Has(p, "append", x + 1) =>
      /\ \A q \in Ranks : AppendsDone(q, x)
      /\ HasOk(p, "epoch_flush_ret", x)

C3_Witness ==
  \E p \in Ranks : \E q \in Ranks :
    /\ Has(p, "append", 1)
    /\ pc[q] = "wp_flush" /\ e[q] = 0
    /\ ~Has(q, "epoch_flush", 0)

\* ==================================================================== C4
\* the flush calls of rank r, in order
Flushes(r) == SelectSeq(log[r], LAMBDA ev : ev.op = "epoch_flush")

\* C4: a rank flushes the epochs 0, 1, 2, ... in that order, each once, and
\* issues no append of epoch x or of an earlier epoch after calling
\* epochFlush(x).
C4_FlushesInOrder ==
  \A r \in Ranks :
    /\ \A j \in DOMAIN Flushes(r) : Flushes(r)[j].e = j - 1
    /\ \A a \in DOMAIN log[r] :
         log[r][a].op = "epoch_flush" =>
           \A b \in DOMAIN log[r] :
             (a < b /\ log[r][b].op = "append") => log[r][b].e > log[r][a].e

C4_Witness ==
  \E r \in Ranks :
    /\ Len(Flushes(r)) = MaxEpochs
    /\ NAppends(r, MaxEpochs - 1) = MaxKeys

\* ==================================================================== C5
\* the storage-engine calls of rank r that the claim counts
StorageCalls(r) ==
  SelectSeq(log[r],
            LAMBDA ev : ev.op \in {"open", "append", "epoch_flush", "finish"})

\* what a clean run is to do, from the command line alone
EpochCalls(r, x, nk, vs) ==
  [ j \in 1 .. nk |-> Ev("append", x, Fname(j - 1, r), vs, TRUE) ]
    \o << Ev("epoch_flush", x, <<>>, -1, TRUE) >>

RECURSIVE RunCalls(_, _, _, _, _)
RunCalls(r, x, ne, nk, vs) ==
  IF x >= ne THEN <<>>
  ELSE EpochCalls(r, x, nk, vs) \o RunCalls(r, x + 1, ne, nk, vs)

Expected(r) ==
  << Call("open", TRUE) >>
    \o RunCalls(r, 0, OptVal(argv.e, DEF_NUM_EPOCHS),
                OptVal(argv.n, DEF_NUM_KEYS_PER_EPOCH),
                OptVal(argv.d, DEF_VAL_SIZE))
    \o << Call("finish", TRUE) >>

\* C5: a rank that ends with status 0 has made one open, then for each
\* epoch 0 .. E-1 exactly N appends (keys 0 .. N-1 in order, values of V
\* bytes) and one epochFlush, then one successful finish, and nothing else.
C5_CleanRunCalls ==
  \A r \in Ranks : status[r] = 0 => StorageCalls(r) = Expected(r)

C5_Witness ==
  \E r \in Ranks :
    /\ status[r] = 0
    /\ g[r].nepochs = MaxEpochs /\ g[r].nkeys = MaxKeys /\ g[r].valsz = 0
    /\ Len(StorageCalls(r)) = 2 + MaxEpochs * (MaxKeys + 1)

\* ==================================================================== C6
\* the calls rank r makes in this step
NewCalls(r) == { j \in DOMAIN log'[r] : j > Len(log[r]) }

\* C6: an append or epochFlush reaches the storage engine only while the
\* session is Open, and the session only moves from Unopened to Open and
\* from Open to Finished.
C6_OnlyWhenOpen ==
  [][\A r \in Ranks :
       /\ \A j \in NewCalls(r) :
            log'[r][j].op \in {"append", "epoch_flush"} => sess[r] = "Open"
       /\ sess'[r] # sess[r] =>
            <<sess[r], sess'[r]>> \in { <<"none", "Unopened">>,
                                        <<"Unopened", "Open">>,
                                        <<"Open", "Finished">> }]_vars

C6_Witness ==
  \E r \in Ranks :
    /\ sess[r] = "Finished"
    /\ NAppends(r, 0) >= 1
    /\ Has(r, "epoch_flush", 0)

\* ==================================================================== C7
\* C7: a call that fails is the last call the rank makes.
C7_ErrorsAreFatal ==
  \A r \in Ranks :
    \A j \in DOMAIN log[r] : j < Len(log[r]) => log[r][j].ok

\* ==================================================================== C8
\* every step up to MPI_Finalize was made and none failed
Succeeded(r) ==
  /\ log[r] # <<>>
  /\ log[r][Len(log[r])].op = "MPI_Finalize"
  /\ \A j \in DOMAIN log[r] : log[r][j].ok

\* C8: a process exits with 0 or 1, and with 0 exactly when its run
\* succeeded.
C8_ExitStatus ==
  \A r \in Ranks :
    pc[r] = "exited" =>
      /\ status[r] \in {0, 1}
      /\ status[r] = 0 <=> Succeeded(r)

\* ==================================================================== C9
\* C9: once the timeout given to alarm() has elapsed, the process does not
\* exit with 0 and, as long as it still runs, has not completed finish().
C9_DeadlineStopsRun ==
  \A r \in Ranks :
    expired[r] =>
      /\ status[r] # 0
      /\ pc[r] # "exited" => ~FinishDone(r)

\* =================================================================== C10
\* C10: a rank waiting in a barrier leaves it, because the barrier
\* completes or because the rank terminates.
C10_BarrierNeverHangs ==
  \A r \in Ranks : Waiting(r) ~> ~Waiting(r)

\* =================================================================== C11
\* the length of the whole text of the descriptor for gs
DescLen(gs) == Sum(Returns(gs), Len(Returns(gs)))

Made(r) == cf[r] # EmptyCf

\* C11: the descriptor mkconf() leaves in cf is never truncated and never
\* written past the end of the 500-byte buffer: cf holds every field and
\* the whole text with its terminating NUL; no handle is ever created from
\* a descriptor whose text does not fit.
C11_DescriptorFits ==
  \A r \in Ranks :
    /\ Made(r) =>
         /\ ~cf[r].over
         /\ cf[r].len = DescLen(g[r])
         /\ cf[r].len < CfSize
         /\ cf[r].fields = Conf(g[r])
    /\ Has(r, "create_handle", -1) => Made(r) /\ DescLen(g[r]) < CfSize

\* a handle is open on a descriptor whose numbers are all as wide as can be
C11_Witness ==
  \E r \in Ranks :
    /\ sess[r] = "Open"
    /\ g[r].iosz = INT_MAX /\ g[r].keysz = INT_MAX /\ g[r].valsz = INT_MAX
    /\ g[r].filterbits = INT_MAX
    /\ cf[r].len = DescLen(g[r])

\* =================================================================== C12
FieldNames ==
  <<"rank", "tail_padding", "block_padding", "data_buffer",
    "min_data_buffer", "index_buffer", "min_index_buffer", "key_size",
    "value_size", "bf_bits_per_key", "epoch_log_rotation", "lg_parts">>

\* the value each field must carry for rank r under the command line a
FieldValues(r, a) ==
  <<r, 1, 1, OptVal(a.s, DEF_IO_SIZE), OptVal(a.s, DEF_IO_SIZE),
    OptVal(a.s, DEF_IO_SIZE), OptVal(a.s, DEF_IO_SIZE),
    OptVal(a.k, DEF_KEY_SIZE), OptVal(a.d, DEF_VAL_SIZE),
    OptVal(a.f, DEF_FILTER_BITS), IF a.r THEN 1 ELSE 0, 0>>

\* C12: the descriptor holds exactly the twelve fields rank, tail_padding,
\* block_padding, data_buffer, min_data_buffer, index_buffer,
\* min_index_buffer, key_size, value_size, bf_bits_per_key,
\* epoch_log_rotation, lg_parts in that order; rank is the rank of the
\* process, the paddings are 1, the four buffer sizes are the io size,
\* lg_parts is 0 and the others are the live parameters; two ranks with the
\* same parameters get descriptors that differ in the rank field only.
C12_DescriptorFields ==
  /\ \A r \in Ranks :
       Made(r) =>
         /\ [k \in DOMAIN cf[r].fields |-> cf[r].fields[k][1]] = FieldNames
         /\ [k \in DOMAIN cf[r].fields |-> cf[r].fields[k][2]]
              = FieldValues(r, argv)
  /\ \A p, q \in Ranks :
       Made(p) /\ Made(q) => Tail(cf[p].fields) = Tail(cf[q].fields)

\* two ranks have made their descriptors, with a key size that differs
\* from the value size and with log rotation on
C12_Witness ==
  \E p, q \in Ranks :
    /\ p # q /\ Made(p) /\ Made(q)
    /\ g[p].keysz # g[p].valsz /\ g[p].logrotation = 1
    /\ g[p].iosz = DEF_IO_SIZE

\* =================================================================== C13
\* C13: the key of an append is a function of (index, rank) that gives
\* different keys to different pairs, and the 20-byte buffer holds the whole
\* text of the key with its terminating NUL.
C13_KeysInjective ==
  \A p, q \in Ranks :
    (log[p] # <<>> /\ log[q] # <<>>) =>
      /\ log[p][1].k = log[q][1].k
           <=> (i[p] = i[q] /\ g[p].myrank = g[q].myrank)
      /\ log[p][1].k = FnameText(i[p] - 1, g[p].myrank)
      /\ Len(log[p][1].k) < FnameSize

\* one rank has written the key of the largest index for the largest rank,
\* another the key of index 0 for rank 1
C13_Witness ==
  \E p, q \in Ranks :
    /\ log[p] # <<>> /\ i[p] = INT_MAX /\ g[p].myrank = INT_MAX - 1
    /\ log[q] # <<>> /\ i[q] = 1 /\ g[q].myrank = 1

\* =================================================================== C14
\* the parameters of a process satisfy the invariants of the run
ParamsValid(gs) ==
  /\ gs.keysz > 0 /\ gs.valsz >= 0 /\ gs.nepochs >= 0
  /\ gs.iosz > 0 /\ gs.filterbits >= 0
  /\ gs.bbos # 0 => gs.bbosport > 0

\* the command line asks for parameters that break one of them
Violating(a) == ~ParamsValid(ParsedGs(ZeroGs, a))

\* C14: a process that has created its handle runs with key size > 0,
\* value size >= 0, epochs >= 0, io size > 0, filter bits >= 0 and, with
\* the remote backend on, port > 0; under a command line that breaks one of
\* these every process ends in usage with status 1 having entered no
\* barrier and made no storage-engine call.
C14_ParamsValid ==
  \A r \in Ranks :
    /\ Has(r, "create_handle", -1) => ParamsValid(g[r])
    /\ Violating(argv) =>
         /\ bar[r] = 0
         /\ \A j \in DOMAIN log[r] :
              log[r][j].op \in {"MPI_Init", "MPI_Comm_rank", "MPI_Comm_size"}
         /\ pc[r] \in {"mpi_init", "comm_rank", "comm_size", "getopt",
                       "exited"}
         /\ pc[r] = "exited" => status[r] = 1

\* a process given a key size of 0 has left through usage()
C14_Witness ==
  \E r \in Ranks :
    /\ Violating(argv) /\ OptVal(argv.k, DEF_KEY_SIZE) = 0
    /\ pc[r] = "exited" /\ status[r] = 1
    /\ Len(log[r]) = 3 /\ log[r][3].ok

\* =================================================================== C15
HandleCalls == {"open", "append", "epoch_flush", "finish", "free_handle"}

\* C15: a process frees its handle at most once and only after finish
\* returned success; once finish has been called or the handle freed, it
\* makes no further open, append, epoch_flush, finish or free_handle call.
C15_FreedOnceAfterFinish ==
  \A r \in Ranks : \A a \in DOMAIN log[r] :
    /\ log[r][a].op = "free_handle" =>
         \E b \in 1 .. (a - 1) : log[r][b].op = "finish" /\ log[r][b].ok
    /\ log[r][a].op = "finish" =>
         \A b \in DOMAIN log[r] :
           b > a => log[r][b].op \notin HandleCalls \ {"free_handle"}
    /\ log[r][a].op = "free_handle" =>
         \A b \in DOMAIN log[r] : b > a => log[r][b].op \notin HandleCalls

\* a process that wrote keys and flushed an epoch has freed its handle
C15_Witness ==
  \E r \in Ranks :
    /\ Has(r, "free_handle", -1) /\ pc[r] = "exited"
    /\ NAppends(r, 0) >= 1 /\ Has(r, "epoch_flush", 0)

\* =================================================================== C16
HandleExists(r) == HasOk(r, "create_handle", -1)
Released(r) == FinishDone(r) /\ Has(r, "free_handle", -1)

\* the position in log[r] of the create_handle call, 0 without one
CreatedAt(r) ==
  IF Has(r, "create_handle", -1)
    THEN CHOOSE j \in DOMAIN log[r] : log[r][j].op = "create_handle"
    ELSE 0

\* C16: a process that exits after its handle came to exist has released
\* the session with finish and free_handle, whatever the way it exits:
\* success, a failed open, append, barrier, flush or finish, or the
\* watchdog.
C16_ReleasedOnEveryExit ==
  \A r \in Ranks :
    (pc[r] = "exited" /\ HandleExists(r)) => Released(r)

\* C16, as the program has it: a process whose handle came to exist
\* releases the session with finish and free_handle on the exit with
\* status 0, and only after finish succeeded; when an open, append,
\* barrier, flush or finish of write() fails it exits with status 1 and the
\* handle still not freed.
C16_ReleasedOnCleanExitOnly ==
  \A r \in Ranks :
    (pc[r] = "exited" /\ HandleExists(r)) =>
      /\ status[r] = 0 => Released(r)
      /\ Has(r, "free_handle", -1) => FinishDone(r)
      /\ \A j \in DOMAIN log[r] :
           (j > CreatedAt(r) /\ ~log[r][j].ok
              /\ log[r][j].op # "MPI_Finalize")
             => status[r] = 1 /\ ~Has(r, "free_handle", -1)

\* a process with an open session left on a failed append, nothing released
C16_Witness ==
  \E r \in Ranks :
    /\ pc[r] = "exited" /\ status[r] = 1 /\ sess[r] = "Open"
    /\ log[r][Len(log[r])].op = "append" /\ ~log[r][Len(log[r])].ok
    /\ ~Has(r, "finish", -1) /\ ~Has(r, "free_handle", -1)

\* =================================================================== C17
\* rank r runs mkconf() in this step
MkconfStep(r) ==
  /\ pc[r] = "mkconf"
  /\ pc'[r] = "create_handle" \/ log'[r] # log[r]

\* C17: mkconf() makes no thread pool and does not end the run: no process
\* ever calls tp_init (mkconf is the only place that could).
C17_MkconfPure == \A r \in Ranks : ~Has(r, "tp_init", -1)

\* C17, as the program has it: besides writing the descriptor, mkconf()
\* changes nothing but the thread pool: with a non-zero -j and no pool yet
\* it makes one tp_init call and keeps the pool; it ends the run (status 1,
\* cf untouched) exactly when that call fails; parameters, environment,
\* handle, session, epoch and barrier state are left alone.
C17_MkconfTouchesPoolOnly ==
  [][\A r \in Ranks :
       MkconfStep(r) =>
         /\ UNCHANGED <<argv, g, dir, env, sess, e, i, bar>>
         /\ IF g[r].bg # 0 /\ ~bgp[r]
              THEN log'[r] = Append(log[r], Call("tp_init", bgp'[r]))
              ELSE bgp'[r] = bgp[r] /\ log'[r] = log[r]
         /\ IF g[r].bg # 0 /\ ~bgp'[r]
              THEN pc'[r] = "exited" /\ status'[r] = 1 /\ cf'[r] = cf[r]
              ELSE /\ pc'[r] = "create_handle" /\ status'[r] = status[r]
                   /\ cf'[r] = Render(g[r])]_vars

\* mkconf() has made a thread pool and the descriptor
C17_Witness ==
  \E r \in Ranks :
    /\ pc[r] = "create_handle" /\ Made(r) /\ bgp[r]
    /\ log[r][Len(log[r])] = Call("tp_init", TRUE)

\* =================================================================== C18
\* the positions in log[r] of the calls of op
At(r, op) == { j \in DOMAIN log[r] : log[r][j].op = op }

\* C18: without -b a process never initialises or attaches a remote
\* environment, whatever positional arguments it got; with -b it creates
\* its handle only after env_init succeeded, attaches the environment to
\* the handle before open, and a failed env_init is its last call: it exits
\* with status 1 and no handle.
C18_RemoteOnlyWithFlag ==
  \A r \in Ranks :
    /\ ~argv.b =>
         /\ ~env[r]
         /\ At(r, "env_init") = {} /\ At(r, "set_env") = {}
    /\ (argv.b /\ Has(r, "create_handle", -1)) =>
         /\ env[r] /\ HasOk(r, "env_init", -1)
         /\ \A c \in At(r, "create_handle") :
              /\ \E a \in At(r, "env_init") : a < c
              /\ \E a \in At(r, "set_env") : a > c
         /\ \A o \in At(r, "open") : \E a \in At(r, "set_env") : a < o
    /\ \A a \in At(r, "env_init") :
         ~log[r][a].ok =>
           /\ a = Len(log[r]) /\ pc[r] = "exited" /\ status[r] = 1
           /\ ~Has(r, "create_handle", -1)

\* with -b: a session is open with the environment attached
C18_Witness ==
  \E r \in Ranks :
    /\ argv.b /\ sess[r] = "Open" /\ env[r]
    /\ Has(r, "set_env", -1)

\* without -b but with host and port given: a session is open, no environment
C18_WitnessNoFlag ==
  \E r \in Ranks :
    /\ ~argv.b /\ argv.pos > 2 /\ sess[r] = "Open" /\ ~env[r]

\* =================================================================== C19
\* rank r is in writepoch(e[r]): appending, in its barrier, or flushing
Working(r) ==
  pc[r] \in {"writepoch", "wp_barrier_wait", "wp_flush", "wp_flush_ret"}

\* C19: the epochs any two ranks are working on at the same time differ by
\* at most 1, and when a rank calls epoch_flush(x+1) every rank has made
\* all its appends of epoch x+1, entered the barrier of that epoch, and
\* returned from epoch_flush(x).
C19_BoundedSkew ==
  /\ \A p, q \in Ranks :
       (Working(p) /\ Working(q)) => e[p] - e[q] <= 1
  /\ \A p \in Ranks : \A j \in DOMAIN log[p] :
       (log[p][j].op = "epoch_flush" /\ log[p][j].e > 0) =>
         \A q \in Ranks :
           /\ AppendsDone(q, log[p][j].e)
           /\ HasOk(q, "epoch_flush_ret", log[p][j].e - 1)

\* in a run of three epochs one rank is on the last epoch while another
\* still flushes the one before
C19_Witness ==
  \E p, q \in Ranks :
    /\ g[p].nepochs > 2
    /\ Working(p) /\ e[p] = 2
    /\ pc[q] = "wp_flush_ret" /\ e[q] = 1

\* =================================================================== C20
\* rank r has finished, freed its handle, called MPI_Finalize and left with 0
Completed(r) ==
  /\ status[r] = 0 /\ Released(r) /\ Has(r, "MPI_Finalize", -1)

\* C20: when no call fails and the alarm does not go off, a process that
\* exits with 0 has entered exactly nepochs + 1 barriers, no process stays
\* in a barrier forever, and under a valid command line every process
\* finishes, frees its handle, calls MPI_Finalize and exits with 0.
C20_AllRanksComplete ==
  /\ [](\A r \in Ranks : status[r] = 0 => bar[r] = g[r].nepochs + 1)
  /\ \A r \in Ranks : Waiting(r) ~> ~Waiting(r)
  /\ ~BadArgs(argv) ~> (\A r \in Ranks : Completed(r))

\* every rank has completed a run of MaxEpochs epochs of MaxKeys keys
C20_Witness ==
  \A r \in Ranks :
    /\ Completed(r) /\ bar[r] = MaxEpochs + 1
    /\ g[r].nepochs = MaxEpochs /\ NAppends(r, MaxEpochs - 1) = MaxKeys

\* every rank has completed a run without epochs
C20_WitnessNoEpochs ==
  \A r \in Ranks : Completed(r) /\ bar[r] = 1 /\ g[r].nepochs = 0

====
